---- MODULE Spec2Model ----
(***************************************************************************)
(* Model of the resume-analysis service, analyzeResumeWithGemini.          *)
(*                                                                         *)
(* The repository holds two versions of the function:                      *)
(*   "normalizing"  src/unnamed/part_003 (maps the reply into the nested   *)
(*                  AnalysisResult and clamps its scores), and             *)
(*   "legacy"       src/src/services/geminiService.ts (validates the       *)
(*                  decoded reply and returns it as it is).                *)
(*                                                                         *)
(* JavaScript values are records [t, n, s]: t is the type tag, n a finite  *)
(* number counted in halves (85 is n = 170, 42.5 is n = 85), s the text of *)
(* a string.  NaN, Infinity and -Infinity are tags of their own whose      *)
(* typeof is "number".                                                     *)
(***************************************************************************)
EXTENDS Integers, Sequences, FiniteSets, TLC

\* ------------------------------------------------------------------------
\* JavaScript values
\* ------------------------------------------------------------------------

Undefined == [t |-> "undefined", n |-> 0, s |-> ""]
Null      == [t |-> "null", n |-> 0, s |-> ""]
NaN       == [t |-> "NaN", n |-> 0, s |-> ""]
PosInf    == [t |-> "Infinity", n |-> 0, s |-> ""]
NegInf    == [t |-> "-Infinity", n |-> 0, s |-> ""]
EmptyObj  == [t |-> "object", n |-> 0, s |-> ""]
EmptyArr  == [t |-> "array", n |-> 0, s |-> ""]
Halves(h) == [t |-> "number", n |-> h, s |-> ""]
Num(x)    == Halves(2 * x)
Str(x)    == [t |-> "string", n |-> 0, s |-> x]

\* typeof v
TypeOf(v) ==
    CASE v.t \in {"number", "NaN", "Infinity", "-Infinity"} -> "number"
      [] v.t \in {"null", "array"} -> "object"
      [] OTHER -> v.t

\* The numeric value of the strings the model uses (StringToNumber).
StringToNumber(x) ==
    CASE x = "" -> Num(0)
      [] x = "0" -> Num(0)
      [] x = "85" -> Num(85)
      [] x = "75" -> Num(75)
      [] x = "130" -> Num(130)
      [] x = "-10" -> Num(-10)
      [] x = "84.5" -> Halves(169)
      [] x = "Infinity" -> PosInf
      [] OTHER -> NaN

\* Number(v)
ToNumber(v) ==
    CASE TypeOf(v) = "number" -> v
      [] v.t = "string" -> StringToNumber(v.s)
      [] v.t = "null" -> Num(0)
      [] v.t = "boolean" -> Num(v.n)
      [] v.t = "array" -> Num(0)
      [] OTHER -> NaN

\* ToBoolean(v): what `v || x`, `v && x`, `!v` and `v ? a : b` test.
Truthy(v) ==
    CASE v.t = "number" -> v.n # 0
      [] v.t \in {"Infinity", "-Infinity"} -> TRUE
      [] v.t = "string" -> v.s # ""
      [] v.t = "boolean" -> v.n # 0
      [] v.t \in {"object", "array"} -> TRUE
      [] OTHER -> FALSE

\* a || b
Or(a, b) == IF Truthy(a) THEN a ELSE b

\* a ?? b
Coalesce(a, b) == IF a.t \in {"undefined", "null"} THEN b ELSE a

\* a + b on numbers
Add(a, b) ==
    CASE a.t = "NaN" \/ b.t = "NaN" -> NaN
      [] a.t = "number" /\ b.t = "number" -> Halves(a.n + b.n)
      [] a.t = "number" -> b
      [] b.t = "number" -> a
      [] a.t = b.t -> a
      [] OTHER -> NaN

\* Math.round(a / d) for a divisor d > 0: the nearest integer, a tie going up.
RoundQuotient(a, d) ==
    IF a.t = "number" THEN Num((a.n + d) \div (2 * d)) ELSE a

\* Math.round(a)
MathRound(a) == RoundQuotient(a, 1)

\* Math.min(a, b) and Math.max(a, b) on finite numbers
MathMin(a, b) == IF a.n <= b.n THEN a ELSE b
MathMax(a, b) == IF a.n >= b.n THEN a ELSE b

\* ------------------------------------------------------------------------
\* The decoded payload (RawModelPayload)
\* ------------------------------------------------------------------------

\* A property holding a list: an array of items, or not an array at all.
NoList      == [isArray |-> FALSE, items |-> <<>>]
List(items) == [isArray |-> TRUE, items |-> items]

\* raw.scores: absent, or an object with the five nested score fields.
NoScores == [present |-> FALSE, overall |-> Undefined,
             atsCompatibility |-> Undefined, keywordOptimization |-> Undefined,
             formatting |-> Undefined, impact |-> Undefined]

\* raw.breakdown: v is the property's own value (undefined, null, an object),
\* the other fields are the object's properties.
NoBreakdown == [v |-> Undefined, keywords |-> Undefined,
                keywordsScore |-> Undefined, formatting |-> Undefined,
                experience |-> Undefined, skills |-> Undefined,
                education |-> Undefined]

\* raw.improvements: v is the property's own value (undefined, null, a string,
\* an array with `items`, an object with the four categorized lists).
NoImprovements == [v |-> Undefined, items |-> <<>>, critical |-> NoList,
                   important |-> NoList, suggested |-> NoList,
                   recommended |-> NoList]

\* An object with no properties: every property reads as undefined.
EmptyPayload ==
    [score |-> Undefined, scores |-> NoScores, breakdown |-> NoBreakdown,
     improvements |-> NoImprovements, strengths |-> NoList,
     summary |-> Undefined, analysisSummary |-> Undefined,
     criticalIssues |-> NoList, suggestions |-> NoList]

\* The value JSON.parse returned: t is "none" before decoding, else the kind
\* of JSON value; p holds the properties of an object.
NoRaw        == [t |-> "none", p |-> EmptyPayload]
RawNull      == [t |-> "null", p |-> EmptyPayload]
RawNumber    == [t |-> "number", p |-> EmptyPayload]
RawString    == [t |-> "string", p |-> EmptyPayload]
RawArray     == [t |-> "array", p |-> EmptyPayload]
RawObject(p) == [t |-> "object", p |-> p]

\* ------------------------------------------------------------------------
\* analyzeResumeWithGemini, normalizing version: the mapping of the payload
\* ------------------------------------------------------------------------

MaxScore == 100

\* xs.filter((i) => typeof i === "string")
IsString(v) == v.t = "string"
FilterStrings(xs) ==
    LET kept == SelectSeq(xs, IsString)
    IN  [i \in 1..Len(kept) |-> kept[i].s]

\* overall with a string score not converted: numbers only.
OverallNumbersOnly(p) ==
    IF TypeOf(p.score) = "number" THEN p.score ELSE Num(0)

\* const overall = typeof raw.score === "number" ? raw.score
\*   : typeof raw.score === "string" ? Number(raw.score) || 0 : 0
Overall(p) ==
    IF TypeOf(p.score) = "number" THEN p.score
    ELSE IF TypeOf(p.score) = "string" THEN Or(ToNumber(p.score), Num(0))
    ELSE Num(0)

\* const breakdown = raw.breakdown || {}, then breakdown[f]
BreakdownField(p, f) ==
    IF Truthy(p.breakdown.v) /\ p.breakdown.v.t = "object"
    THEN p.breakdown[f]
    ELSE Undefined

\* Number(breakdown.f ?? 0) || 0
BreakdownNumber(p, f) ==
    Or(ToNumber(Coalesce(BreakdownField(p, f), Num(0))), Num(0))

\* Number(breakdown.keywords ?? breakdown.keywordsScore ?? 0) || 0
Keywords(p) ==
    Or(ToNumber(Coalesce(Coalesce(BreakdownField(p, "keywords"),
                                  BreakdownField(p, "keywordsScore")),
                         Num(0))),
       Num(0))

\* Math.round((a + b) / (a || b ? 2 : 1)) || 0
DerivedAverage(a, b) ==
    Or(RoundQuotient(Add(a, b), IF Truthy(Or(a, b)) THEN 2 ELSE 1), Num(0))

\* The improvementsFlat list with the keys taken in alphabetical order.
ImprovementsFlatAlphabetical(p) ==
    LET imp == p.improvements
        Part(l) == IF l.isArray THEN FilterStrings(l.items) ELSE <<>>
    IN  IF imp.v.t = "array" THEN FilterStrings(imp.items)
        ELSE IF Truthy(imp.v) /\ TypeOf(imp.v) = "object"
        THEN Part(imp.critical) \o Part(imp.important)
             \o Part(imp.recommended) \o Part(imp.suggested)
        ELSE <<>>

\* The improvementsFlat list.
ImprovementsFlat(p) ==
    LET imp == p.improvements
        Part(l) == IF l.isArray THEN FilterStrings(l.items) ELSE <<>>
    IN  IF imp.v.t = "array" THEN FilterStrings(imp.items)
        ELSE IF Truthy(imp.v) /\ TypeOf(imp.v) = "object"
        THEN Part(imp.critical) \o Part(imp.important)
             \o Part(imp.suggested) \o Part(imp.recommended)
        ELSE <<>>

\* Array.isArray(raw.improvements?.k) ? raw.improvements.k.filter(...) : []
ImprovementsPart(p, k) ==
    IF p.improvements.v.t = "object" /\ p.improvements[k].isArray
    THEN FilterStrings(p.improvements[k].items)
    ELSE <<>>

\* (raw.summary && String(raw.summary)) ||
\* (raw.analysisSummary && String(raw.analysisSummary)) || ""
Summary(p) ==
    LET Text(v) == IF Truthy(v) /\ v.t = "string" THEN v.s
                   ELSE IF Truthy(v) /\ v.t = "object" THEN "[object Object]"
                   ELSE ""
    IN  IF Text(p.summary) # "" THEN Text(p.summary)
        ELSE Text(p.analysisSummary)

\* The object literal `mapped`, before the final loop.
Mapped(p) ==
    [scores |->
        [overall |-> MathRound(Overall(p)),
         atsCompatibility |->
             DerivedAverage(BreakdownNumber(p, "experience"),
                            BreakdownNumber(p, "education")),
         keywordOptimization |-> Or(MathRound(Keywords(p)), Num(0)),
         formatting |->
             Or(MathRound(BreakdownNumber(p, "formatting")), Num(0)),
         impact |->
             DerivedAverage(BreakdownNumber(p, "skills"),
                            BreakdownNumber(p, "experience"))],
     summary |-> Summary(p),
     strengths |->
         IF p.strengths.isArray THEN FilterStrings(p.strengths.items)
         ELSE <<>>,
     improvements |-> ImprovementsFlat(p),
     criticalIssues |-> ImprovementsPart(p, "critical"),
     suggestions |-> ImprovementsPart(p, "suggested")]

\* ClampScore without the upper bound: Math.max(0, Math.round(v)).
ClampScoreNoUpperBound(v) ==
    LET w == IF v.t \in {"NaN", "Infinity", "-Infinity"} THEN Num(0) ELSE v
    IN  MathMax(Num(0), MathRound(w))

\* One pass of the final loop:
\*   if (Number.isNaN(v) || v === Infinity || v === -Infinity) v = 0;
\*   mapped.scores[key] = Math.max(0, Math.min(100, Math.round(v)));
ClampScore(v) ==
    LET w == IF v.t \in {"NaN", "Infinity", "-Infinity"} THEN Num(0) ELSE v
    IN  MathMax(Num(0), MathMin(Num(MaxScore), MathRound(w)))

ScoreKeys ==
    {"overall", "atsCompatibility", "keywordOptimization", "formatting",
     "impact"}

\* The AnalysisResult the function returns for payload p.
Normalize(p) ==
    LET m == Mapped(p)
    IN  [m EXCEPT !.scores = [k \in ScoreKeys |-> ClampScore(m.scores[k])]]

\* ------------------------------------------------------------------------
\* The reply text
\*
\* A reply is a sequence of pieces of text:
\*   "fence"  ```json            "bt"    ```            "ws"   a line break
\*   "lb"     {                  "rb"    }
\*   "prose"  unavailable (503)
\*   "null"   null               "num"   -7             "arr"  []
\*   "obj"    the JSON text of the reply's payload object, { ... }
\* No piece but "lb", "rb" and "obj" holds a brace, and none but "fence" and
\* "bt" a backtick.
\* ------------------------------------------------------------------------

MaxLen == 3

Pieces ==
    {"fence", "bt", "ws", "lb", "rb", "prose", "null", "num", "arr", "obj"}

RECURSIVE TextsOfLen(_)
TextsOfLen(n) ==
    IF n = 0 THEN {<<>>}
    ELSE {Append(t, c) : t \in TextsOfLen(n - 1), c \in Pieces}

ShortTexts == UNION {TextsOfLen(n) : n \in 0..MaxLen}

Indices(toks, S) == {i \in 1..Len(toks) : toks[i] \in S}
Min(S) == CHOOSE x \in S : \A y \in S : x <= y
Max(S) == CHOOSE x \in S : \A y \in S : x >= y

\* s with its leading and trailing white space removed (what \s* consumes
\* around the capture, and what JSON.parse skips around the value).
RECURSIVE TrimLeft(_)
TrimLeft(toks) ==
    IF toks # <<>> /\ Head(toks) = "ws" THEN TrimLeft(Tail(toks)) ELSE toks

RECURSIVE TrimRight(_)
TrimRight(toks) ==
    IF toks # <<>> /\ toks[Len(toks)] = "ws"
    THEN TrimRight(SubSeq(toks, 1, Len(toks) - 1))
    ELSE toks

Trim(toks) == TrimRight(TrimLeft(toks))

NoMatch == [found |-> FALSE, whole |-> <<>>, group |-> <<>>]

\* text.match(/```json\s*([\s\S]*?)\s*```/): the leftmost ```json that some
\* ``` follows, the capture running lazily to the first such ```.
\* (The normalizing version adds the i flag; no piece holds an upper-case
\* ```JSON, so both versions match the same way here.)
FenceMatch(toks) ==
    LET opens == Indices(toks, {"fence"})
    IN  IF opens = {} THEN NoMatch
        ELSE LET i == Min(opens)
                 closes == {j \in Indices(toks, {"fence", "bt"}) : j > i}
             IN  IF closes = {} THEN NoMatch
                 ELSE LET j == Min(closes)
                      IN  [found |-> TRUE,
                           whole |-> Append(SubSeq(toks, i, j - 1), "bt"),
                           group |-> Trim(SubSeq(toks, i + 1, j - 1))]

\* text.match(/\{[\s\S]*\}/): from the first { to the last }.
BraceMatch(toks) ==
    LET opens  == Indices(toks, {"lb", "obj"})
        closes == Indices(toks, {"rb", "obj"})
    IN  IF opens = {} \/ closes = {} \/ Max(closes) < Min(opens) THEN NoMatch
        ELSE [found |-> TRUE,
              whole |-> SubSeq(toks, Min(opens), Max(closes)),
              group |-> <<>>]

\* The two patterns tried in the other order: braces first.
JsonMatchBraceFirst(toks) ==
    IF BraceMatch(toks).found THEN BraceMatch(toks) ELSE FenceMatch(toks)

\* let jsonMatch = text.match(fence); if (!jsonMatch) jsonMatch = text.match(braces)
JsonMatch(toks) ==
    IF FenceMatch(toks).found THEN FenceMatch(toks) ELSE BraceMatch(toks)

\* const jsonText = jsonMatch[1] || jsonMatch[0]
JsonText(m) == IF m.group # <<>> THEN m.group ELSE m.whole

\* JSON.parse(jsonText), the reply's payload object being p: the text is one
\* JSON value with white space around it, or the decoder throws.
JsonParse(toks, p) ==
    LET core == Trim(toks)
    IN  IF core = <<"obj">> THEN [ok |-> TRUE, raw |-> RawObject(p)]
        ELSE IF core = <<"null">> THEN [ok |-> TRUE, raw |-> RawNull]
        ELSE IF core = <<"num">> THEN [ok |-> TRUE, raw |-> RawNumber]
        ELSE IF core = <<"arr">> THEN [ok |-> TRUE, raw |-> RawArray]
        ELSE IF /\ Len(core) >= 2
                /\ core[1] = "lb"
                /\ core[Len(core)] = "rb"
                /\ \A i \in 2..(Len(core) - 1) : core[i] = "ws"
        THEN [ok |-> TRUE, raw |-> RawObject(EmptyPayload)]
        ELSE [ok |-> FALSE, raw |-> NoRaw]

\* ------------------------------------------------------------------------
\* Errors: an error is the place that threw it and the markers its message
\* contains, the catch block reading the message only with includes().
\* ------------------------------------------------------------------------

Markers ==
    {"Unavailable", "unavailable", "503", "JSON", "parse", "structure",
     "API key"}

NoError == [at |-> "none", markers |-> {}]

\* The markers a decoder's message may quote from the text it rejected: the
\* engines that quote at all quote the text at the first character they reject
\* (V8: Unexpected token 'u', "unavailable (503)" is not valid JSON).
TextMarkers(toks) ==
    IF Trim(toks) # <<>> /\ Trim(toks)[1] = "prose"
    THEN {"503", "unavailable"}
    ELSE {}

UnavailableMessage ==
    "Gemini API is temporarily unavailable. Please try again later."
ParseMessage == "Failed to parse analysis results from Gemini. Try again."
ApiKeyMessage == "Invalid Gemini API key. Check configuration."
GenericMessage == "Failed to analyze resume. Please try again."

LegacyUnavailableMessage ==
    "Gemini API is temporarily unavailable. Please try again in a few moments."
LegacyParseMessage == "Failed to parse analysis results. Please try again."
LegacyApiKeyMessage ==
    "Invalid API key. Please check your Gemini API key configuration."

\* The catch block of the normalizing version.
Classify(m) ==
    IF "Unavailable" \in m \/ "503" \in m THEN UnavailableMessage
    ELSE IF "JSON" \in m \/ "parse" \in m THEN ParseMessage
    ELSE IF "API key" \in m THEN ApiKeyMessage
    ELSE GenericMessage

\* The catch block of the legacy version.
LegacyClassify(m) ==
    IF "503" \in m \/ "unavailable" \in m THEN LegacyUnavailableMessage
    ELSE IF "JSON" \in m \/ "structure" \in m THEN LegacyParseMessage
    ELSE IF "API key" \in m THEN LegacyApiKeyMessage
    ELSE GenericMessage

\* ------------------------------------------------------------------------
\* The replies the model service is taken to send
\* ------------------------------------------------------------------------

\* The payload of the prompt's own example (ATS_ANALYSIS_PROMPT).
PromptExample ==
    [EmptyPayload EXCEPT
        !.score = Num(85),
        !.breakdown = [v |-> EmptyObj, keywords |-> Num(80),
                       keywordsScore |-> Undefined, formatting |-> Num(90),
                       experience |-> Num(85), skills |-> Num(75),
                       education |-> Num(95)],
        !.improvements = [v |-> EmptyObj, items |-> <<>>,
                          critical |-> List(<<Str("Add metrics")>>),
                          important |-> List(<<>>),
                          suggested |-> List(<<>>),
                          recommended |-> NoList],
        !.strengths = List(<<Str("Clear history")>>)]

ScoreValues ==
    {Undefined, Null, Num(0), Num(85), Halves(169), Num(130), Num(-10),
     PosInf, Str("85"), Str("130"), Str("84.5"), Str("n/a"), Str("")}

NestedScores(o) ==
    [present |-> TRUE, overall |-> o, atsCompatibility |-> Num(80),
     keywordOptimization |-> Num(70), formatting |-> Num(60),
     impact |-> Num(50)]

\* Replies that differ in score and scores.overall.
ScorePayloads ==
    {[EmptyPayload EXCEPT !.score = x, !.scores = n] :
        x \in ScoreValues,
        n \in {NoScores, NestedScores(Undefined), NestedScores(Num(90))}}

BreakdownValues ==
    {Undefined, Null, Num(0), Num(75), Num(85), Num(150), Num(-10),
     Str("75"), Str("n/a"), PosInf}

\* Replies that differ in score and in breakdown.experience, .education and
\* .skills.
BreakdownPayloads ==
    {[EmptyPayload EXCEPT
        !.score = c,
        !.breakdown = [NoBreakdown EXCEPT !.v = EmptyObj, !.experience = x,
                                          !.education = e, !.skills = k]] :
        c \in {Num(85), Num(130)},
        x \in BreakdownValues, e \in BreakdownValues, k \in BreakdownValues}
    \cup {[EmptyPayload EXCEPT !.breakdown = [NoBreakdown EXCEPT !.v = b]] :
            b \in {Null, Num(5), Str("n/a")}}

KeywordValues == {Undefined, Num(0), Num(80), Halves(161), Num(-3), Str("n/a")}

\* Replies that differ in breakdown.keywords, .keywordsScore and .formatting.
KeywordPayloads ==
    {[EmptyPayload EXCEPT
        !.breakdown = [NoBreakdown EXCEPT !.v = EmptyObj, !.keywords = k,
                                          !.keywordsScore = c,
                                          !.formatting = f]] :
        k \in KeywordValues, c \in {Undefined, Num(65)}, f \in KeywordValues}

ListChoices(a, b) == {NoList, List(<<>>), List(<<Str(a), Num(7), Str(b)>>)}

\* Replies that differ in improvements and strengths.
ImprovementPayloads ==
    {[EmptyPayload EXCEPT
        !.improvements = [v |-> EmptyObj, items |-> <<>>, critical |-> c,
                          important |-> i, suggested |-> g,
                          recommended |-> r]] :
        c \in ListChoices("c1", "c2"), i \in ListChoices("i1", "i2"),
        g \in ListChoices("s1", "s2"), r \in ListChoices("r1", "r2")}
    \cup {[EmptyPayload EXCEPT
            !.improvements = [NoImprovements EXCEPT !.v = EmptyArr,
                                                    !.items = xs],
            !.strengths = l] :
            xs \in {<<>>, <<Str("a"), Str("b")>>, <<Str("b"), Null, Str("a")>>},
            l \in ListChoices("x", "y")}
    \cup {[EmptyPayload EXCEPT
            !.improvements = [NoImprovements EXCEPT !.v = b]] :
            b \in {Null, Str("none")}}

\* Replies already in the canonical nested shape of AnalysisResult.
CanonicalPayloads ==
    {[EmptyPayload EXCEPT
        !.scores = [present |-> TRUE, overall |-> o, atsCompatibility |-> a,
                    keywordOptimization |-> Num(70), formatting |-> Num(60),
                    impact |-> Num(50)],
        !.summary = Str("Solid resume"),
        !.strengths = List(<<Str("Clear history")>>),
        !.improvements = [NoImprovements EXCEPT !.v = EmptyArr, !.items = xs],
        !.criticalIssues = c,
        !.suggestions = g] :
        o \in {Num(0), Num(72), Num(100)}, a \in {Num(0), Num(80)},
        xs \in {<<>>, <<Str("a"), Str("b")>>},
        c \in {List(<<>>), List(<<Str("c1")>>)},
        g \in {List(<<>>), List(<<Str("s1")>>)}}

Payloads ==
    {PromptExample} \cup ScorePayloads \cup BreakdownPayloads
    \cup KeywordPayloads \cup ImprovementPayloads \cup CanonicalPayloads

\* The texts that carry the payloads: the fenced block the prompt asks for,
\* and the bare object after some prose.
PayloadTexts ==
    {<<"prose", "ws", "fence", "ws", "obj", "ws", "bt">>, <<"prose", "obj">>}

\* Longer replies with braces outside a fenced block.
FencedTexts ==
    { <<"lb", "fence", "ws", "obj", "ws", "bt", "rb">>,
      <<"obj", "ws", "fence", "ws", "bt", "ws", "obj">>,
      <<"rb", "fence", "null", "fence", "obj", "bt">> }

Replies ==
    {[toks |-> t, p |-> PromptExample] : t \in ShortTexts \cup FencedTexts}
    \cup {[toks |-> t, p |-> q] : t \in PayloadTexts, q \in Payloads}

\* ------------------------------------------------------------------------
\* extractTextFromFile: files and extracted text
\*
\* A string is a sequence of characters; "\n" is the line break the page loop
\* appends.  The bytes of a file either parse as a PDF document, given by the
\* text fragments (item.str) of each page, or are plain text.
\* ------------------------------------------------------------------------

MaxPages == 2

\* if (text.trim().length > 50)
MinTextLength == 50

TextPlain == "text/plain"
ApplicationPdf == "application/pdf"
MsWord == "application/msword"
OpenXmlWord ==
    "application/vnd.openxmlformats-officedocument.wordprocessingml.document"
MimeTypes == {TextPlain, ApplicationPdf, MsWord, OpenXmlWord, "image/png", ""}

WhiteSpace == {" ", "\n"}

RECURSIVE Repeat(_, _)
Repeat(c, n) == IF n = 0 THEN <<>> ELSE <<c>> \o Repeat(c, n - 1)

\* String.prototype.trim
RECURSIVE TrimStart(_)
TrimStart(s) ==
    IF s # <<>> /\ Head(s) \in WhiteSpace THEN TrimStart(Tail(s)) ELSE s

RECURSIVE TrimEnd(_)
TrimEnd(s) ==
    IF s # <<>> /\ s[Len(s)] \in WhiteSpace
    THEN TrimEnd(SubSeq(s, 1, Len(s) - 1))
    ELSE s

TrimString(s) == TrimEnd(TrimStart(s))

\* content.items.map((item) => item.str).join(" ")
RECURSIVE JoinItems(_)
JoinItems(items) ==
    IF items = <<>> THEN <<>>
    ELSE IF Len(items) = 1 THEN items[1]
    ELSE items[1] \o <<" ">> \o JoinItems(Tail(items))

\* let text = ""; for (i = 1..numPages) text += <page i> + "\n";
RECURSIVE PagesText(_)
PagesText(pages) ==
    IF pages = <<>> THEN <<>>
    ELSE JoinItems(pages[1]) \o <<"\n">> \o PagesText(Tail(pages))

\* The fragments a page may hold: words of 24 and of 25 letters, so that two
\* of them joined have 50 or 51 characters, a lone blank, and nothing.
ShortWord == Repeat("a", MinTextLength \div 2 - 1)
LongWord == Repeat("b", MinTextLength \div 2)

PageChoices ==
    { <<>>, <<<<" ">>>>, <<ShortWord>>, <<LongWord>>, <<ShortWord, LongWord>>,
      <<LongWord, LongWord>> }

RECURSIVE DocumentsOf(_)
DocumentsOf(n) ==
    IF n = 0 THEN {<<>>}
    ELSE {Append(d, p) : d \in DocumentsOf(n - 1), p \in PageChoices}

Documents == UNION {DocumentsOf(n) : n \in 0..MaxPages}

PdfBytes(pages) == [kind |-> "pdf", pages |-> pages, chars |-> <<>>]
TextBytes(chars) == [kind |-> "text", pages |-> <<>>, chars |-> chars]

FileContents ==
    {PdfBytes(d) : d \in Documents}
        \cup {TextBytes(c) : c \in {<<>>, ShortWord, LongWord \o <<"\n">>}}

Files == [type : MimeTypes, bytes : FileContents]

\* reader.readAsText(file): the bytes decoded as text; of a PDF, its header.
ReadAsText(bytes) ==
    IF bytes.kind = "text" THEN bytes.chars ELSE <<"%", "P", "D", "F">>

\* pdfjsLib.getDocument({ data }).promise settles only for bytes of a PDF.
IsPdf(bytes) == bytes.kind = "pdf"

ReadTextFailed == "Failed to read text file"
ReadPdfFailed == "Failed to read PDF file"
ReadFileFailed == "Failed to read file"
NoReadableTextInPdf ==
    "Could not extract readable text from PDF. Please try converting your PDF to a text file or copy-paste the content."
NoReadableTextInFile ==
    "Could not extract readable text from file. Please provide a PDF or text file."
ParsePdfFailed == "Failed to parse PDF. Try a different PDF or convert to text."
LegacyParsePdfFailed ==
    "Failed to parse PDF. Please try a different PDF or convert to text format."
WordNotSupported ==
    "Word documents are not supported yet. Please convert your resume to PDF or text format."
UnsupportedFileType == "Unsupported file type. Please use PDF or text files."

NoPromise == [state |-> "none", text |-> <<>>, error |-> ""]
Pending == [state |-> "pending", text |-> <<>>, error |-> ""]
Resolved(s) == [state |-> "resolved", text |-> s, error |-> ""]
Rejected(m) == [state |-> "rejected", text |-> <<>>, error |-> m]

\* The length test asking only for some text: length > 0.
LengthGateNonEmpty(text, short) ==
    IF Len(TrimString(text)) > 0
    THEN Resolved(TrimString(text))
    ELSE Rejected(short)

\* The length test with 50 characters let through: length >= 50.
LengthGateInclusive(text, short) ==
    IF Len(TrimString(text)) > MinTextLength - 1
    THEN Resolved(TrimString(text))
    ELSE Rejected(short)

\* if (text.trim().length > 50) resolve(text.trim()); else reject(...)
LengthGate(text, short) ==
    IF Len(TrimString(text)) > MinTextLength
    THEN Resolved(TrimString(text))
    ELSE Rejected(short)

\* The try block of reader.onload on the PDF path, with the messages of the
\* branch: for text under the threshold and for bytes that do not parse.
PdfText(bytes, short, failed) ==
    IF IsPdf(bytes)
    THEN LengthGate(PagesText(bytes.pages), short)
    ELSE Rejected(failed)

\* ------------------------------------------------------------------------
\* State
\* ------------------------------------------------------------------------

VARIABLES
    impl,       \* which version of the service: "normalizing" or "legacy"
    pc,         \* "idle", "awaiting", "returned", "threw"
    text,       \* the reply text, response.text()
    payload,    \* the payload object the reply's "obj" pieces stand for
    located,    \* whether a payload substring was located (jsonMatch)
    jsonText,   \* the located substring
    raw,        \* the decoded value
    thrown,     \* the error the catch block caught
    result,     \* the AnalysisResult returned (normalizing version)
    message,    \* the message of the error the caller receives
    \* extractTextFromFile
    extFile,    \* the File passed to extractTextFromFile
    extReader,  \* the FileReader: "none", the read method while it is
                \* reading, then "loaded" (onload) or "failed" (onerror)
    extPromise, \* the promise extractTextFromFile returned
    \* the App component
    user,       \* useAuth().user: NoUser or a user id
    file,       \* useState: the selected file or NoFile
    analyzing,  \* useState
    results,    \* useState: an AnalysisResult or NoResults
    error,      \* useState: a message or NoAppError
    uploadingToStorage, \* useState
    dragActive, \* useState
    inv,        \* the invocations of analyzeResume: their locals and position
    saveCalls,  \* the argument lists saveAnalysisResults was called with
    \* the ResumeHistory component
    loading,    \* useState
    analyses,   \* useState: the rows of the list, in order
    deletingId, \* useState: a row id or NoId
    rendered,   \* what the list shows for each row: id, Score and ATS
    del,        \* the invocations of handleDelete, one per row
    notified    \* the rows onAnalysisDeleted was called for

geminiVars ==
    <<pc, text, payload, located, jsonText, raw, thrown, result, message>>

extractVars == <<extFile, extReader, extPromise>>

appVars ==
    <<user, file, analyzing, results, error, uploadingToStorage, dragActive,
      inv, saveCalls>>

historyVars == <<loading, analyses, deletingId, rendered, del, notified>>

vars == <<impl, geminiVars, extractVars, appVars, historyVars>>

NoResult == Normalize(EmptyPayload)

\* The values of the App component.  A file is known by its name and MIME
\* type, the text extracted from it by the file it came from, an
\* AnalysisResult by the resume it analyses, a public URL by the upload that
\* made it (uploadResume names the object after the user, the time and a
\* random suffix).
Invocations == {"first", "second"}

NoUser == "(no user)"
UserId == "user-1"
NoAppError == "(null)"
NoFile == [name |-> "(null)", type |-> ""]
AppFiles ==
    { [name |-> "cv-a.pdf", type |-> ApplicationPdf],
      [name |-> "cv-b.txt", type |-> TextPlain] }
NoUrl == [owner |-> NoUser, upload |-> "(none)"]
PublicUrl(u, i) == [owner |-> u, upload |-> i]
NoText == [from |-> "(none)"]
TextOf(f) == [from |-> f.name]
NoResults == [resume |-> "(null)"]
AnalysisOf(t) == [resume |-> t.from]

SignInRequired == "Please sign in to analyze your resume"
UploadFailed == "Failed to upload resume to storage"

\* An invocation of analyzeResume: its position, the handler that made it
\* (via), its parameter and locals,
\* the collaborators it has called so far, what uploadResume resolved with,
\* the step that failed, and what it last wrote to the error and results
\* state.
NotStarted ==
    [ pc |-> "idle", via |-> "none", uploadedFile |-> NoFile,
      userId |-> NoUser,
      fileUrl |-> NoUrl, resumeText |-> NoText, analysisResult |-> NoResults,
      calls |-> <<>>, uploaded |-> "(pending)", failed |-> "none",
      saveFailed |-> FALSE,
      setError |-> NoAppError, setResults |-> NoResults ]

GeminiIdle ==
    /\ pc = "idle"
    /\ text = <<>>
    /\ payload = EmptyPayload
    /\ located = FALSE
    /\ jsonText = <<>>
    /\ raw = NoRaw
    /\ thrown = NoError
    /\ result = NoResult
    /\ message = ""

ExtractIdle ==
    /\ extFile = [type |-> "", bytes |-> TextBytes(<<>>)]
    /\ extReader = "none"
    /\ extPromise = NoPromise

AppMounted ==
    /\ file = NoFile
    /\ analyzing = FALSE
    /\ results = NoResults
    /\ error = NoAppError
    /\ uploadingToStorage = FALSE
    /\ dragActive = FALSE
    /\ inv = [i \in Invocations |-> NotStarted]
    /\ saveCalls = {}

\* The rows of the history list and the invocations of handleDelete.
RowIds == {"row-1", "row-2"}
NoId == "(null)"
NotDeleting ==
    [pc |-> "idle", confirmed |-> FALSE, calls |-> <<>>, storage |-> "none",
     table |-> "none", alerted |-> FALSE]

HistoryMounted ==
    /\ loading = TRUE
    /\ analyses = <<>>
    /\ deletingId = NoId
    /\ rendered = <<>>
    /\ del = [id \in RowIds |-> NotDeleting]
    /\ notified = {}

Init ==
    /\ impl \in {"normalizing", "legacy"}
    /\ GeminiIdle
    /\ ExtractIdle
    /\ AppMounted
    /\ HistoryMounted
    /\ user = NoUser

\* ------------------------------------------------------------------------
\* Actions
\* ------------------------------------------------------------------------

\* The messages of the errors the two versions throw inside their try block.
NoJsonFound    == {"JSON"}           \* "No valid JSON found in response ..."
ParseFailed    == {"JSON", "parse"}  \* "Failed to parse JSON from Gemini response"
BadStructure   == {"structure"}      \* "Invalid response structure from Gemini API"
NullDereference == {}                \* the engine's TypeError for raw.score of null

CatchBlock(v, m) == IF v = "normalizing" THEN Classify(m) ELSE LegacyClassify(m)

\* The function is called: the prompt is built and generateContent awaited.
Invoke ==
    /\ pc \in {"idle", "returned", "threw"}
    /\ pc' = "awaiting"
    /\ text' = <<>>
    /\ payload' = EmptyPayload
    /\ located' = FALSE
    /\ jsonText' = <<>>
    /\ raw' = NoRaw
    /\ thrown' = NoError
    /\ result' = NoResult
    /\ message' = ""
    /\ UNCHANGED impl
    /\ UNCHANGED <<extractVars, appVars, historyVars>>

\* The try block ends by throwing e, which the catch block classifies.
Throws(e) ==
    /\ pc' = "threw"
    /\ thrown' = e
    /\ message' = CatchBlock(impl, e.markers)
    /\ result' = NoResult

\* await model.generateContent(prompt) rejects; the SDK's message may hold
\* any of the markers.
GenerateContentRejects ==
    /\ pc = "awaiting"
    /\ \E m \in SUBSET Markers :
          Throws([at |-> "generateContent", markers |-> m])
    /\ UNCHANGED <<impl, text, payload, located, jsonText, raw>>
    /\ UNCHANGED <<extractVars, appVars, historyVars>>

\* response.text() throws (a blocked reply).
ResponseTextThrows ==
    /\ pc = "awaiting"
    /\ \E m \in SUBSET Markers :
          Throws([at |-> "response.text", markers |-> m])
    /\ UNCHANGED <<impl, text, payload, located, jsonText, raw>>
    /\ UNCHANGED <<extractVars, appVars, historyVars>>

\* The normalizing version from response.text() to its return or throw.
ReplyArrives ==
    /\ pc = "awaiting"
    /\ impl = "normalizing"
    /\ \E r \in Replies :
          LET m == JsonMatch(r.toks)
              d == JsonParse(JsonText(m), r.p)
          IN  /\ text' = r.toks
              /\ payload' = r.p
              /\ located' = m.found
              /\ jsonText' = IF m.found THEN JsonText(m) ELSE <<>>
              /\ raw' = IF m.found THEN d.raw ELSE NoRaw
              /\ IF ~m.found
                 THEN Throws([at |-> "locate", markers |-> NoJsonFound])
                 ELSE IF ~d.ok
                 THEN Throws([at |-> "decode", markers |-> ParseFailed])
                 ELSE IF d.raw.t = "null"
                 THEN Throws([at |-> "map", markers |-> NullDereference])
                 ELSE /\ pc' = "returned"
                      /\ result' = Normalize(d.raw.p)
                      /\ thrown' = NoError
                      /\ message' = ""
    /\ UNCHANGED impl
    /\ UNCHANGED <<extractVars, appVars, historyVars>>

\* if (!analysisResult.score || !analysisResult.breakdown ||
\*     !analysisResult.improvements || !analysisResult.strengths)
LegacyValid(p) ==
    /\ Truthy(p.score)
    /\ Truthy(p.breakdown.v)
    /\ Truthy(p.improvements.v)
    /\ p.strengths.isArray

\* The legacy version from response.text() to its return or throw.  The
\* SyntaxError of JSON.parse is the engine's: its message says "JSON" and may
\* quote the rejected text.
LegacyReplyArrives ==
    /\ pc = "awaiting"
    /\ impl = "legacy"
    /\ \E r \in Replies :
          LET m == JsonMatch(r.toks)
              d == JsonParse(JsonText(m), r.p)
          IN  /\ text' = r.toks
              /\ payload' = r.p
              /\ located' = m.found
              /\ jsonText' = IF m.found THEN JsonText(m) ELSE <<>>
              /\ raw' = IF m.found THEN d.raw ELSE NoRaw
              /\ IF ~m.found
                 THEN Throws([at |-> "locate", markers |-> NoJsonFound])
                 ELSE IF ~d.ok
                 THEN \E q \in SUBSET TextMarkers(JsonText(m)) :
                         Throws([at |-> "decode", markers |-> {"JSON"} \cup q])
                 ELSE IF d.raw.t = "null"
                 THEN Throws([at |-> "validate", markers |-> NullDereference])
                 ELSE IF ~LegacyValid(d.raw.p)
                 THEN Throws([at |-> "validate", markers |-> BadStructure])
                 ELSE /\ pc' = "returned"
                      /\ result' = NoResult
                      /\ thrown' = NoError
                      /\ message' = ""
    /\ UNCHANGED impl
    /\ UNCHANGED <<extractVars, appVars, historyVars>>

Next ==
    \/ Invoke
    \/ GenerateContentRejects
    \/ ResponseTextThrows
    \/ ReplyArrives
    \/ LegacyReplyArrives

Spec == Init /\ [][Next]_vars

\* ------------------------------------------------------------------------
\* Actions of extractTextFromFile
\* ------------------------------------------------------------------------

\* The Word test with the Open XML type left out.
IsWordDocumentBinaryOnly(type) == type = MsWord

\* file.type === "application/msword" || file.type === "application/vnd...."
IsWordDocument(type) == type \in {MsWord, OpenXmlWord}

\* The executor of the promise: the branch is chosen by file.type alone; the
\* Word branch rejects at once, and so does the last branch of the legacy
\* version, which the normalizing version replaced by an attempt to read the
\* bytes as a PDF.
ExtractTextFromFile ==
    /\ extPromise.state # "pending"
    /\ \E f \in Files :
          /\ extFile' = f
          /\ IF f.type = TextPlain
             THEN extReader' = "readAsText" /\ extPromise' = Pending
             ELSE IF f.type = ApplicationPdf
             THEN extReader' = "readAsArrayBuffer" /\ extPromise' = Pending
             ELSE IF IsWordDocument(f.type)
             THEN /\ extReader' = "none"
                  /\ extPromise' = Rejected(WordNotSupported)
             ELSE IF impl = "normalizing"
             THEN extReader' = "readAsArrayBuffer" /\ extPromise' = Pending
             ELSE /\ extReader' = "none"
                  /\ extPromise' = Rejected(UnsupportedFileType)
    /\ UNCHANGED <<impl, geminiVars, appVars, historyVars>>

\* reader.onload of the text/plain branch.
ReaderOnLoadText ==
    /\ extPromise.state = "pending"
    /\ extFile.type = TextPlain
    /\ extPromise' = Resolved(ReadAsText(extFile.bytes))
    /\ extReader' = "loaded"
    /\ UNCHANGED <<impl, geminiVars, appVars, historyVars, extFile>>

\* reader.onload of the application/pdf branch.
ReaderOnLoadPdf ==
    /\ extPromise.state = "pending"
    /\ extFile.type = ApplicationPdf
    /\ extPromise' =
          PdfText(extFile.bytes, NoReadableTextInPdf,
                  IF impl = "normalizing" THEN ParsePdfFailed
                  ELSE LegacyParsePdfFailed)
    /\ extReader' = "loaded"
    /\ UNCHANGED <<impl, geminiVars, appVars, historyVars, extFile>>

\* reader.onload of the last branch of the normalizing version.
ReaderOnLoadOther ==
    /\ extPromise.state = "pending"
    /\ extFile.type \notin {TextPlain, ApplicationPdf}
    /\ extPromise' =
          PdfText(extFile.bytes, NoReadableTextInFile, UnsupportedFileType)
    /\ extReader' = "loaded"
    /\ UNCHANGED <<impl, geminiVars, appVars, historyVars, extFile>>

\* reader.onerror: the bytes could not be read.
ReaderOnError ==
    /\ extPromise.state = "pending"
    /\ extPromise' =
          Rejected(IF extFile.type = TextPlain THEN ReadTextFailed
                   ELSE IF extFile.type = ApplicationPdf THEN ReadPdfFailed
                   ELSE ReadFileFailed)
    /\ extReader' = "failed"
    /\ UNCHANGED <<impl, geminiVars, appVars, historyVars, extFile>>

NextExtract ==
    \/ ExtractTextFromFile
    \/ ReaderOnLoadText
    \/ ReaderOnLoadPdf
    \/ ReaderOnLoadOther
    \/ ReaderOnError

SpecExtract == Init /\ [][NextExtract]_vars

\* ------------------------------------------------------------------------
\* Actions of the App component: handleFileInput and analyzeResume
\*
\* analyzeResume is an async function: it runs from one await to the next
\* without interruption, and between two awaits of one invocation the steps
\* of another invocation may run.  uploadedFile, fileUrl, resumeText and
\* analysisResult are locals of the invocation, user is the value the closure
\* captured.
\* ------------------------------------------------------------------------

CallOrder ==
    << "uploadResume", "extractTextFromFile", "analyzeResumeWithGemini",
       "saveAnalysisResults" >>

\* What uploadResume resolves with: { url, error: null } after a successful
\* upload, { url: null, error } from its catch block; the public URL is a
\* string the storage client builds, "" included as far as its type says.
UploadOutcomes == {"url", "error", "empty url"}

\* The upload test with the URL not looked at: if (uploadError).
UploadSucceededIgnoringUrl(o) == o # "error"

\* if (uploadError || !fileUrl) throw ...
UploadSucceeded(o) == ~(o = "error" \/ o = "empty url")

\* What saveAnalysisResults resolves with: { id, error: null }, or
\* { id: null, error } from its catch block, for an error the insert
\* returned and for one the client threw.
SaveOutcomes == {"saved", "insert error", "client threw"}

\* The messages extractTextFromFile and analyzeResumeWithGemini reject with,
\* as far as the component tells them apart: it shows err.message.
ExtractRejections == {WordNotSupported, NoReadableTextInPdf}
AnalyzeRejections == {ParseMessage, GenericMessage}

\* The file name passed to saveAnalysisResults read from the component's
\* state, not from the parameter.
SavedFileNameFromState(i) == file.name

\* uploadedFile.name
SavedFileName(i) == inv[i].uploadedFile.name

\* The results shown only when the record was saved.
ShownResultsIfSaved(o, r) == IF o = "saved" THEN r ELSE results

\* if (saveError) console.error(...);  setResults(analysisResult);
ShownResults(o, r) == r

\* The call that follows upload made a second upload.
CallAfterRetrying(n) == IF n = 1 THEN CallOrder[1] ELSE CallOrder[n + 1]

\* The collaborator awaited after the n-th one resolved.
CallAfter(n) == CallOrder[n + 1]

\* if (!user) with the test always passing.
SignedInAlways(u) == TRUE

\* if (!user) { setError(...); return; }
SignedIn(u) == u # NoUser

\* analyzeResume(f) up to its first await, called by the handler `via`.
AnalyzeResume(i, f, via) ==
    IF ~SignedIn(user)
    THEN /\ error' = SignInRequired
         /\ inv' = [inv EXCEPT ![i] =
                      [@ EXCEPT !.pc = "done", !.via = via,
                                !.uploadedFile = f, !.failed = "sign in",
                                !.setError = SignInRequired]]
         /\ UNCHANGED <<analyzing, uploadingToStorage>>
    ELSE /\ analyzing' = TRUE
         /\ error' = NoAppError
         /\ uploadingToStorage' = TRUE
         /\ inv' = [inv EXCEPT ![i] =
                      [@ EXCEPT !.pc = "upload", !.via = via,
                                !.uploadedFile = f, !.userId = user,
                                !.calls = <<CallOrder[1]>>]]

\* handleFileInput: setFile(uploadedFile); analyzeResume(uploadedFile), up to
\* the first await.
HandleFileInput(i) ==
    /\ inv[i].pc = "idle"
    /\ \E f \in AppFiles :
          /\ file' = f
          /\ AnalyzeResume(i, f, "input")
    /\ UNCHANGED <<impl, geminiVars, extractVars, historyVars, user, results, saveCalls,
                   dragActive>>

\* The catch block with no finally block after it.
FailsWithoutFinally(i, locals, step, m) ==
    /\ error' = m
    /\ inv' = [inv EXCEPT ![i] =
                 [locals EXCEPT !.pc = "done", !.failed = step,
                                !.setError = m]]
    /\ UNCHANGED <<analyzing, uploadingToStorage, results, saveCalls>>

\* catch (err) { setError(err.message) } finally { setAnalyzing(false);
\* setUploadingToStorage(false) }, for the invocation whose locals are given.
Fails(i, locals, step, m) ==
    /\ error' = m
    /\ analyzing' = FALSE
    /\ uploadingToStorage' = FALSE
    /\ inv' = [inv EXCEPT ![i] =
                 [locals EXCEPT !.pc = "done", !.failed = step,
                                !.setError = m]]
    /\ UNCHANGED <<results, saveCalls>>

\* await uploadResume(user.id, uploadedFile) resolves.
UploadReturns(i) ==
    /\ inv[i].pc = "upload"
    /\ \E o \in UploadOutcomes :
          IF UploadSucceeded(o)
          THEN /\ uploadingToStorage' = FALSE
               /\ inv' = [inv EXCEPT ![i] =
                            [@ EXCEPT !.pc = "extract", !.uploaded = o,
                                      !.fileUrl =
                                          IF o = "url"
                                          THEN PublicUrl(inv[i].userId, i)
                                          ELSE NoUrl,
                                      !.calls = Append(@, CallAfter(1))]]
               /\ UNCHANGED <<analyzing, results, error, saveCalls>>
          ELSE Fails(i, [inv[i] EXCEPT !.uploaded = o], "upload",
                     UploadFailed)
    /\ UNCHANGED <<impl, geminiVars, extractVars, historyVars, user, file, dragActive>>

\* await extractTextFromFile(uploadedFile) settles.
ExtractSettles(i) ==
    /\ inv[i].pc = "extract"
    /\ \/ /\ inv' = [inv EXCEPT ![i] =
                       [@ EXCEPT !.pc = "analyze",
                                 !.resumeText = TextOf(inv[i].uploadedFile),
                                 !.calls = Append(@, CallAfter(2))]]
          /\ UNCHANGED <<analyzing, results, error, uploadingToStorage,
                         saveCalls>>
       \/ \E m \in ExtractRejections : Fails(i, inv[i], "extract", m)
    /\ UNCHANGED <<impl, geminiVars, extractVars, historyVars, user, file, dragActive>>

\* await analyzeResumeWithGemini(resumeText) settles; when it resolves,
\* saveAnalysisResults is called with the invocation's own values.
AnalyzeSettles(i) ==
    /\ inv[i].pc = "analyze"
    /\ \/ LET r == AnalysisOf(inv[i].resumeText)
          IN  /\ inv' = [inv EXCEPT ![i] =
                           [@ EXCEPT !.pc = "save", !.analysisResult = r,
                                     !.calls = Append(@, CallAfter(3))]]
              /\ saveCalls' = saveCalls \cup
                    { [ userId |-> inv[i].userId,
                        fileName |-> SavedFileName(i),
                        fileUrl |-> inv[i].fileUrl,
                        analysisResults |-> r ] }
              /\ UNCHANGED <<analyzing, results, error, uploadingToStorage>>
       \/ \E m \in AnalyzeRejections : Fails(i, inv[i], "analyze", m)
    /\ UNCHANGED <<impl, geminiVars, extractVars, historyVars, user, file, dragActive>>

\* await saveAnalysisResults(...) resolves: it never rejects.
SaveReturns(i) ==
    /\ inv[i].pc = "save"
    /\ \E o \in SaveOutcomes :
          /\ results' = ShownResults(o, inv[i].analysisResult)
          /\ inv' = [inv EXCEPT ![i] =
                       [@ EXCEPT !.pc = "done", !.saveFailed = (o # "saved"),
                                 !.setResults =
                                     ShownResults(o, inv[i].analysisResult)]]
    /\ analyzing' = FALSE
    /\ uploadingToStorage' = FALSE
    /\ UNCHANGED <<impl, geminiVars, extractVars, historyVars, user, file, error,
                   saveCalls, dragActive>>

InitApp ==
    /\ impl \in {"normalizing", "legacy"}
    /\ GeminiIdle
    /\ ExtractIdle
    /\ AppMounted
    /\ HistoryMounted
    /\ user \in {NoUser, UserId}

NextApp ==
    \E i \in Invocations :
        \/ HandleFileInput(i)
        \/ UploadReturns(i)
        \/ ExtractSettles(i)
        \/ AnalyzeSettles(i)
        \/ SaveReturns(i)

SpecApp == InitApp /\ [][NextApp]_vars

\* ------------------------------------------------------------------------
\* The App component as the user drives it.  A handler can run only while
\* the element it is bound to is rendered: the page of a signed-in user
\* holds the sign-out button and the history list (whose entries call
\* handleViewHistoricalAnalysis, and resetAnalysis after a delete) at all
\* times, and the drop zone with its file input while !analyzing && !results.
\* ------------------------------------------------------------------------

Users == {UserId, "user-2"}

\* A stored analysis the history list offers.
HistoricalAnalyses == {[resume |-> "cv-old.pdf"]}

\* What a drop event may carry: a file of an accepted type, of another
\* type, or no file at all (NoFile: dataTransfer.files is empty).
DroppedFiles ==
    AppFiles \cup { [name |-> "cv-c.docx", type |-> OpenXmlWord],
                    [name |-> "photo.png", type |-> "image/png"],
                    NoFile }

\* The type test of handleDrop with every type let through.
AcceptedTypeAny(type) == TRUE

\* uploadedFile.type === "text/plain" || ... (the four types)
AcceptedType(type) == type \in {TextPlain, ApplicationPdf, MsWord, OpenXmlWord}

DropZoneRendered == user # NoUser /\ ~analyzing /\ results = NoResults

\* The identity provider reports a session: useAuth().user becomes the user.
SignIn ==
    /\ user = NoUser
    /\ user' \in Users
    /\ UNCHANGED <<impl, geminiVars, extractVars, historyVars, file, analyzing, results,
                   error, uploadingToStorage, dragActive, inv, saveCalls>>

\* handleDrag: dragenter and dragover set dragActive, dragleave clears it.
HandleDrag ==
    /\ DropZoneRendered
    /\ dragActive' = ~dragActive
    /\ UNCHANGED <<impl, geminiVars, extractVars, historyVars, user, file, analyzing,
                   results, error, uploadingToStorage, inv, saveCalls>>

\* handleDrop: setDragActive(false); for a first file of an accepted type,
\* setFile(uploadedFile); analyzeResume(uploadedFile).  A drop that is
\* ignored is recorded in the invocation slot, with no call made.
HandleDrop(i) ==
    /\ DropZoneRendered
    /\ inv[i].pc = "idle"
    /\ dragActive' = FALSE
    /\ \E f \in DroppedFiles :
          IF f # NoFile /\ AcceptedType(f.type)
          THEN /\ file' = f
               /\ AnalyzeResume(i, f, "drop")
          ELSE /\ inv' = [inv EXCEPT ![i] =
                            [@ EXCEPT !.pc = "ignored", !.via = "drop",
                                      !.uploadedFile = f]]
               /\ UNCHANGED <<file, analyzing, error, uploadingToStorage>>
    /\ UNCHANGED <<impl, geminiVars, extractVars, historyVars, user, results, saveCalls>>

\* The file input of the drop zone changes.
ChooseFile(i) ==
    /\ DropZoneRendered
    /\ HandleFileInput(i)

\* resetAnalysis: the "Try Again" and "Analyze Another Resume" buttons and
\* onAnalysisDeleted of the history list.
ResetAnalysis ==
    /\ user # NoUser
    /\ file' = NoFile
    /\ results' = NoResults
    /\ analyzing' = FALSE
    /\ error' = NoAppError
    /\ UNCHANGED <<impl, geminiVars, extractVars, historyVars, user, uploadingToStorage,
                   dragActive, inv, saveCalls>>

\* handleViewHistoricalAnalysis
HandleViewHistoricalAnalysis ==
    /\ user # NoUser
    /\ results' \in HistoricalAnalyses
    /\ file' = NoFile
    /\ error' = NoAppError
    /\ UNCHANGED <<impl, geminiVars, extractVars, historyVars, user, analyzing,
                   uploadingToStorage, dragActive, inv, saveCalls>>

\* handleSignOut: await signOut(); resetAnalysis().  The click changes
\* nothing until signOut() has resolved; the step is what follows: the
\* session is gone and the state is reset.
HandleSignOut ==
    /\ user # NoUser
    /\ user' = NoUser
    /\ file' = NoFile
    /\ results' = NoResults
    /\ analyzing' = FALSE
    /\ error' = NoAppError
    /\ UNCHANGED <<impl, geminiVars, extractVars, historyVars, uploadingToStorage,
                   dragActive, inv, saveCalls>>

NextUI ==
    \/ SignIn
    \/ HandleDrag
    \/ ResetAnalysis
    \/ HandleViewHistoricalAnalysis
    \/ HandleSignOut
    \/ \E i \in Invocations :
          \/ HandleDrop(i)
          \/ ChooseFile(i)
          \/ UploadReturns(i)
          \/ ExtractSettles(i)
          \/ AnalyzeSettles(i)
          \/ SaveReturns(i)

\* The component mounts with nobody signed in.  It does not look at which
\* version of the service it was built with.
InitUI == Init /\ impl = "normalizing"

SpecUI == InitUI /\ [][NextUI]_vars

\* Every collaborator call eventually settles: the awaits of an invocation
\* do not wait forever.
CollaboratorsSettle ==
    \A i \in Invocations :
        /\ WF_vars(UploadReturns(i))
        /\ WF_vars(ExtractSettles(i))
        /\ WF_vars(AnalyzeSettles(i))
        /\ WF_vars(SaveReturns(i))

FairSpecApp == SpecApp /\ CollaboratorsSettle

\* ------------------------------------------------------------------------
\* The ResumeHistory component: what a row shows, loadAnalyses, handleDelete
\* ------------------------------------------------------------------------

\* Math.max(0, Math.min(100, ...)) of the list
HistoryMaxScore == 100

\* a < b on numbers; NaN compares with nothing.
Less(a, b) ==
    CASE a.t = "NaN" \/ b.t = "NaN" -> FALSE
      [] a.t = "-Infinity" -> b.t # "-Infinity"
      [] b.t = "Infinity" -> a.t # "Infinity"
      [] a.t = "number" /\ b.t = "number" -> a.n < b.n
      [] OTHER -> FALSE

\* Math.min(a, b) and Math.max(a, b) on any numbers: NaN if either is NaN.
JsMin(a, b) ==
    IF a.t = "NaN" \/ b.t = "NaN" THEN NaN ELSE IF Less(b, a) THEN b ELSE a
JsMax(a, b) ==
    IF a.t = "NaN" \/ b.t = "NaN" THEN NaN ELSE IF Less(a, b) THEN b ELSE a

\* ar?.scores?.k
NestedScore(ar, k) == IF ar.scores.present THEN ar.scores[k] ELSE Undefined

\* ar?.scores?.overall ??
\*   (typeof ar.score === "number" ? ar.score : Number(ar.score) || null)
OverallRaw(ar) ==
    Coalesce(NestedScore(ar, "overall"),
             IF TypeOf(ar.score) = "number" THEN ar.score
             ELSE Or(ToNumber(ar.score), Null))

\* exp && edu ? 2 : 1
AtsDivisor(exp, edu) == IF Truthy(exp) /\ Truthy(edu) THEN 2 ELSE 1

\* ar?.scores?.atsCompatibility ?? (ar?.breakdown ? (() => {...})() : null)
AtsRaw(ar) ==
    Coalesce(NestedScore(ar, "atsCompatibility"),
             IF Truthy(ar.breakdown.v)
             THEN LET exp == BreakdownNumber(ar, "experience")
                      edu == BreakdownNumber(ar, "education")
                  IN  IF Truthy(Or(exp, edu))
                      THEN RoundQuotient(Add(exp, edu), AtsDivisor(exp, edu))
                      ELSE Null
             ELSE Null)

\* raw !== null && raw !== undefined
\*   ? Math.max(0, Math.min(100, Math.round(Number(raw)))) : null
Display(v) ==
    IF v.t \in {"null", "undefined"} THEN Null
    ELSE JsMax(Num(0), JsMin(Num(HistoryMaxScore), MathRound(ToNumber(v))))

\* analyses.map(...): const ar = analysis.analysis_results ?? {}, and the
\* two values the row shows (null is shown as a dash).
Render(rows) ==
    [n \in 1..Len(rows) |->
        [id |-> rows[n].id,
         overall |-> Display(OverallRaw(rows[n].ar)),
         ats |-> Display(AtsRaw(rows[n].ar))]]

\* The analysis_results values a stored row may hold: none, the canonical
\* nested shape, and the flat shape of the older replies.
StoredNested ==
    {[EmptyPayload EXCEPT
        !.scores = [NoScores EXCEPT !.present = TRUE, !.overall = o,
                                    !.atsCompatibility = a]] :
        o \in {Undefined, Null, Num(0), Num(72), Num(130), Halves(169),
               Str("85"), Str("n/a")},
        a \in {Null, Num(80), Num(-10), Str("n/a")}}

StoredFlat ==
    {[EmptyPayload EXCEPT
        !.score = c,
        !.breakdown = [NoBreakdown EXCEPT !.v = EmptyObj, !.experience = x,
                                          !.education = e]] :
        c \in {Undefined, Num(85), Num(130), Str("n/a")},
        x \in {Undefined, Num(0), Num(85), Num(95), Num(-10), Str("n/a"),
               PosInf},
        e \in {Undefined, Num(0), Num(85), Num(95), Num(-10), Str("n/a"),
               PosInf}}

StoredValues == {EmptyPayload} \cup StoredNested \cup StoredFlat

Row(id, ar) == [id |-> id, ar |-> ar]

\* a.id !== analysis.id
RECURSIVE Without(_, _)
Without(rows, id) ==
    IF rows = <<>> THEN <<>>
    ELSE (IF Head(rows).id = id THEN <<>> ELSE <<Head(rows)>>)
            \o Without(Tail(rows), id)

Displayed(id) == \E n \in 1..Len(analyses) : analyses[n].id = id

\* loadAnalyses, run by the effect when the component mounts for a user:
\* getUserAnalyses resolves with the rows or with an error.
LoadAnalyses ==
    /\ user # NoUser
    /\ loading = TRUE
    /\ loading' = FALSE
    /\ \/ \E a \in StoredValues, b \in {EmptyPayload, PromptExample} :
             analyses' = <<Row("row-1", a), Row("row-2", b)>>
       \/ analyses' = analyses
    /\ rendered' = Render(analyses')
    /\ UNCHANGED <<impl, geminiVars, extractVars, appVars, deletingId, del,
                   notified>>

\* handleDelete up to its first await: window.confirm, setDeletingId, and
\* the call of deleteResume.  One invocation per row is followed.
HandleDelete(id) ==
    /\ ~loading
    /\ Displayed(id)
    /\ deletingId # id
    /\ del[id].pc \in {"idle", "cancelled", "done"}
    /\ \/ /\ del' = [del EXCEPT ![id] =
                       [NotDeleting EXCEPT !.pc = "cancelled"]]
          /\ UNCHANGED deletingId
       \/ /\ del' = [del EXCEPT ![id] =
                       [NotDeleting EXCEPT !.pc = "storage",
                                           !.confirmed = TRUE,
                                           !.calls = <<"deleteResume">>]]
          /\ deletingId' = id
    /\ UNCHANGED <<impl, geminiVars, extractVars, appVars, loading, analyses,
                   rendered, notified>>

\* await deleteResume(analysis.file_url) resolves; it never rejects and its
\* result is not looked at.  The delete of the table row is then awaited.
DeleteResumeReturns(id) ==
    /\ del[id].pc = "storage"
    /\ \E o \in {"removed", "error"} :
          del' = [del EXCEPT ![id] =
                    [@ EXCEPT !.pc = "table", !.storage = o,
                              !.calls = Append(@, "resume_analyses.delete")]]
    /\ UNCHANGED <<impl, geminiVars, extractVars, appVars, loading, analyses,
                   deletingId, rendered, notified>>

\* The error test of the table delete with a returned error not thrown.
TableDeleteSucceededUnlessThrown(o) == o # "threw"

\* const { error } = await supabase...delete(); if (error) throw error;
TableDeleteSucceeded(o) == o = "deleted"

\* The table delete settles: the row is filtered out and onAnalysisDeleted
\* called, or the catch block alerts; the finally block clears deletingId.
TableDeleteSettles(id) ==
    /\ del[id].pc = "table"
    /\ \E o \in {"deleted", "error", "threw"} :
          IF TableDeleteSucceeded(o)
          THEN /\ analyses' = Without(analyses, id)
               /\ notified' = notified \cup {id}
               /\ del' = [del EXCEPT ![id] =
                            [@ EXCEPT !.pc = "done", !.table = o]]
          ELSE /\ del' = [del EXCEPT ![id] =
                            [@ EXCEPT !.pc = "done", !.table = o,
                                      !.alerted = TRUE]]
               /\ UNCHANGED <<analyses, notified>>
    /\ deletingId' = NoId
    /\ rendered' = Render(analyses')
    /\ UNCHANGED <<impl, geminiVars, extractVars, appVars, loading>>

InitHistory ==
    /\ impl = "normalizing"
    /\ GeminiIdle
    /\ ExtractIdle
    /\ AppMounted
    /\ HistoryMounted
    /\ user = UserId

NextHistory ==
    \/ LoadAnalyses
    \/ \E id \in RowIds :
          \/ HandleDelete(id)
          \/ DeleteResumeReturns(id)
          \/ TableDeleteSettles(id)

SpecHistory == InitHistory /\ [][NextHistory]_vars

\* ------------------------------------------------------------------------
\* Properties
\* ------------------------------------------------------------------------

\* The function returned, the version being the normalizing one.
Returned == pc = "returned" /\ impl = "normalizing"

\* The reply arrived and the function ended, with a result or an error of
\* its own handling of the reply.
ReplyHandled ==
    \/ pc = "returned"
    \/ pc = "threw" /\ thrown.at \in {"locate", "decode", "map", "validate"}

\* The model call itself failed.
CallFailed ==
    pc = "threw" /\ thrown.at \in {"generateContent", "response.text"}

UnavailableMessages == {UnavailableMessage, LegacyUnavailableMessage}
ParseMessages == {ParseMessage, LegacyParseMessage}
ApiKeyMessages == {ApiKeyMessage, LegacyApiKeyMessage}

\* v is an integer in [0,100].
IsScore(v) ==
    /\ v.t = "number"
    /\ v.n % 2 = 0
    /\ 0 <= v.n
    /\ v.n <= 2 * MaxScore

\* C1: every result the normalizing version returns holds the five score
\* fields, each an integer in [0,100], whatever the payload held for them.
C1_ScoresInRange ==
    Returned =>
        /\ DOMAIN result.scores = ScoreKeys
        /\ \A k \in ScoreKeys : IsScore(result.scores[k])

\* A result was returned for a payload whose score is above 100, whose
\* breakdown.experience is negative and whose breakdown.skills is not numeric.
C1_Witness ==
    /\ Returned
    /\ raw.t = "object"
    /\ raw.p.score = Num(130)
    /\ raw.p.breakdown.experience = Num(-10)
    /\ raw.p.breakdown.education = Undefined
    /\ raw.p.breakdown.skills = Str("n/a")
    /\ result.scores.overall = Num(MaxScore)
    /\ result.scores.atsCompatibility = Num(0)

\* The value the spec's single-nonzero-value rule derives from a and b.
SingleValueRule(a, b) ==
    IF Truthy(a) /\ Truthy(b) THEN RoundQuotient(Add(a, b), 2)
    ELSE IF Truthy(a) THEN a
    ELSE IF Truthy(b) THEN b
    ELSE Num(0)

\* C2: scores.overall is the payload's nested scores.overall when that is
\* present, else the flat score (a number or a numeric string), else 0.
C2_OverallPrefersNested ==
    (Returned /\ raw.t = "object") =>
        result.scores.overall =
            IF raw.p.scores.present /\ raw.p.scores.overall # Undefined
            THEN ClampScore(raw.p.scores.overall)
            ELSE IF TypeOf(raw.p.score) \in {"number", "string"}
            THEN ClampScore(Or(ToNumber(raw.p.score), Num(0)))
            ELSE Num(0)

\* C3: for a flat-shape payload scores.atsCompatibility is the rounded average
\* of breakdown.experience and breakdown.education when both are nonzero, the
\* single nonzero value itself when only one is, and 0 when neither is.
C3_AtsSingleValueAlone ==
    (Returned /\ raw.t = "object" /\ ~raw.p.scores.present) =>
        result.scores.atsCompatibility =
            ClampScore(SingleValueRule(BreakdownNumber(raw.p, "experience"),
                                       BreakdownNumber(raw.p, "education")))

\* C4: for a flat-shape payload scores.impact is the rounded average of
\* breakdown.skills and breakdown.experience when both are nonzero, the single
\* nonzero value itself when only one is, and 0 when neither is.
C4_ImpactSingleValueAlone ==
    (Returned /\ raw.t = "object" /\ ~raw.p.scores.present) =>
        result.scores.impact =
            ClampScore(SingleValueRule(BreakdownNumber(raw.p, "skills"),
                                       BreakdownNumber(raw.p, "experience")))

\* A payload in the canonical nested shape: the nested scores are integers in
\* [0,100], improvements is an array of strings, criticalIssues and suggestions
\* are arrays of strings.
AllStrings(xs) == \A i \in 1..Len(xs) : xs[i].t = "string"
IsCanonical(p) ==
    /\ p.scores.present
    /\ \A k \in ScoreKeys : IsScore(p.scores[k])
    /\ p.improvements.v.t = "array" /\ AllStrings(p.improvements.items)
    /\ p.criticalIssues.isArray /\ AllStrings(p.criticalIssues.items)
    /\ p.suggestions.isArray /\ AllStrings(p.suggestions.items)

\* C5: a payload in the canonical shape is normalised to a result with the
\* same scores and the same improvements, criticalIssues and suggestions.
C5_CanonicalIsFixed ==
    (Returned /\ raw.t = "object" /\ IsCanonical(raw.p)) =>
        /\ \A k \in ScoreKeys : result.scores[k] = raw.p.scores[k]
        /\ result.improvements = FilterStrings(raw.p.improvements.items)
        /\ result.criticalIssues = FilterStrings(raw.p.criticalIssues.items)
        /\ result.suggestions = FilterStrings(raw.p.suggestions.items)

\* The text holds neither { nor }.
NoBraces(toks) == \A i \in 1..Len(toks) : toks[i] \notin {"lb", "rb", "obj"}

\* C6: a reply text without any brace ends in the parse failure, never in a
\* result.
C6_NoBracesIsParseFailure ==
    (ReplyHandled /\ NoBraces(text)) =>
        pc = "threw" /\ message \in ParseMessages

\* C7: once a payload substring is located and decoded, the function returns
\* a result and raises nothing.
C7_DecodedNeverFails ==
    (ReplyHandled /\ located /\ raw.t # "none") => pc = "returned"

\* C8: a located substring that fails to decode ends in the parse failure,
\* whatever the reply or the decoder's message contain.
C8_DecodeFailureIsParseFailure ==
    (pc = "threw" /\ thrown.at = "decode") => message \in ParseMessages

\* C9: a failure of the model call whose message contains "unavailable" or
\* "503" is reported as temporarily unavailable.
C9_UnavailableReported ==
    (CallFailed /\ ({"unavailable", "503"} \cap thrown.markers # {})) =>
        message \in UnavailableMessages

\* C10: a failure of the model call whose message contains "API key" is
\* reported as an invalid API key, whatever else the message contains.
C10_ApiKeyReported ==
    (CallFailed /\ "API key" \in thrown.markers) =>
        message \in ApiKeyMessages

\* C11: in the normalizing version the parse message is produced only when
\* locating or decoding the payload failed, never for an error raised by the
\* model call itself (generateContent, response.text), whatever the call's
\* error message contains.
C11_ParseOnlyForReplyFailures ==
    (impl = "normalizing" /\ pc = "threw" /\ message = ParseMessage)
        => thrown.at \in {"locate", "decode"}

\* ------------------------------------------------------------------------
\* Properties of extractTextFromFile
\* ------------------------------------------------------------------------

\* C12: for a file whose MIME type is application/msword or the Open XML
\* word-processing type, extractTextFromFile rejects with the fixed 'Word
\* documents are not supported yet' message, and no FileReader is started.
C12_WordRejectedUnread ==
    (extPromise.state # "none" /\ extFile.type \in {MsWord, OpenXmlWord})
        => /\ extPromise = Rejected(WordNotSupported)
           /\ extReader = "none"

C12_Witness ==
    /\ extFile.type = OpenXmlWord
    /\ extFile.bytes.kind = "pdf"
    /\ Len(TrimString(PagesText(extFile.bytes.pages))) > MinTextLength
    /\ extPromise = Rejected(WordNotSupported)

\* The PDF path ran to its end on bytes that parse: the reader loaded them.
Extracted ==
    /\ extReader = "loaded"
    /\ IsPdf(extFile.bytes)

\* The text of a document as a reader sees it: the fragments of a page
\* separated by one blank, the pages by one line break.
RECURSIVE Lines(_)
Lines(pages) ==
    IF pages = <<>> THEN <<>>
    ELSE IF Len(pages) = 1 THEN JoinItems(pages[1])
    ELSE JoinItems(pages[1]) \o <<"\n">> \o Lines(Tail(pages))

ExtractedLength == Len(TrimString(Lines(extFile.bytes.pages)))

\* C13: for application/pdf, extractTextFromFile never resolves with a string
\* whose trimmed length is below 50, and every PDF whose extracted text trims
\* to fewer than 50 characters is rejected with the 'Could not extract
\* readable text' message.
C13_ShortPdfRejected ==
    extFile.type = ApplicationPdf
        => /\ extPromise.state = "resolved"
                => Len(TrimString(extPromise.text)) >= MinTextLength
           /\ (Extracted /\ ExtractedLength < MinTextLength)
                => extPromise = Rejected(NoReadableTextInPdf)

C13_Witness ==
    /\ extFile.type = ApplicationPdf
    /\ Extracted
    /\ ExtractedLength = MinTextLength - 1
    /\ extPromise = Rejected(NoReadableTextInPdf)

\* C14 as stated: for every valid PDF whose extractable text has at least 50
\* characters, 50 included, extractTextFromFile resolves with the fragments
\* of each page joined by a blank and the pages separated by a line break.
C14_FiftyResolves ==
    (extFile.type = ApplicationPdf /\ Extracted
        /\ ExtractedLength >= MinTextLength)
        => extPromise = Resolved(Lines(extFile.bytes.pages))

\* C14 amended: a valid PDF whose text, trimmed, has more than 50 characters
\* resolves with that trimmed text (the fragments of a page joined by a
\* blank, the pages in order separated by a line break); a text of exactly
\* 50 characters is rejected like a shorter one.
C14_OverFiftyResolvesTrimmed ==
    (extFile.type = ApplicationPdf /\ Extracted)
        => extPromise =
              IF ExtractedLength > MinTextLength
              THEN Resolved(TrimString(Lines(extFile.bytes.pages)))
              ELSE Rejected(NoReadableTextInPdf)

C14_Witness ==
    /\ extFile.type = ApplicationPdf
    /\ Extracted
    /\ Len(extFile.bytes.pages) = MaxPages
    /\ ExtractedLength = MinTextLength + 1
    /\ extPromise.state = "resolved"

\* C15: for a MIME type that is none of text/plain, application/pdf and the
\* two Word types, extractTextFromFile reads the bytes as a PDF: it resolves
\* with the text when they parse and the text is over the minimum length,
\* and rejects with 'Unsupported file type' in every other case.
C15_OtherTypeTriedAsPdf ==
    (/\ extFile.type \notin {TextPlain, ApplicationPdf, MsWord, OpenXmlWord}
     /\ extPromise.state \in {"resolved", "rejected"}
     /\ extReader # "failed")
        => extPromise =
              IF IsPdf(extFile.bytes) /\ ExtractedLength > MinTextLength
              THEN Resolved(TrimString(Lines(extFile.bytes.pages)))
              ELSE Rejected(UnsupportedFileType)

\* ------------------------------------------------------------------------
\* Properties of analyzeResume
\* ------------------------------------------------------------------------

Others(i) == Invocations \ {i}
Alone(i) == \A j \in Others(i) : inv[j].pc = "idle"
IsPrefix(a, b) == Len(a) <= Len(b) /\ a = SubSeq(b, 1, Len(a))

\* C16: when uploadResume reports an error or returns no URL, the invocation
\* ends with the error state set to the upload-failure message, it calls
\* none of extractTextFromFile, analyzeResumeWithGemini and
\* saveAnalysisResults, and it does not set results.
C16_UploadFailureStops ==
    \A i \in Invocations :
        inv[i].uploaded \in {"error", "empty url"}
            => /\ inv[i].pc = "done"
               /\ inv[i].failed = "upload"
               /\ inv[i].calls = <<"uploadResume">>
               /\ inv[i].setError = UploadFailed
               /\ inv[i].setResults = NoResults
               /\ inv[i].fileUrl = NoUrl
               /\ \A r \in saveCalls : r.fileUrl.upload # i
               /\ Alone(i) => error = UploadFailed /\ results = NoResults

C16_Witness ==
    \E i \in Invocations :
        /\ inv[i].uploaded = "empty url"
        /\ inv[i].failed = "upload"
        /\ Alone(i)
        /\ error = UploadFailed
        /\ ~analyzing

\* C17: when upload, extraction and the model call succeed and
\* saveAnalysisResults fails, the invocation still ends with results set to
\* the computed AnalysisResult and with error left null.
C17_SaveFailureIgnored ==
    \A i \in Invocations :
        inv[i].saveFailed
            => /\ inv[i].pc = "done"
               /\ inv[i].failed = "none"
               /\ inv[i].setResults = AnalysisOf(TextOf(inv[i].uploadedFile))
               /\ inv[i].setError = NoAppError
               /\ Alone(i)
                    => /\ results = AnalysisOf(TextOf(inv[i].uploadedFile))
                       /\ error = NoAppError

C17_Witness ==
    \E i \in Invocations :
        /\ inv[i].saveFailed
        /\ Alone(i)
        /\ results = AnalysisOf(TextOf(inv[i].uploadedFile))
        /\ error = NoAppError

\* C18: within one invocation the collaborators are called in the order
\* upload, extract, model call, persist, each at most once and each only
\* after the previous one succeeded; after a failure no later one is called.
Position(i) ==
    CASE inv[i].pc = "idle" -> 0
      [] inv[i].pc = "upload" -> 1
      [] inv[i].pc = "extract" -> 2
      [] inv[i].pc = "analyze" -> 3
      [] inv[i].pc = "save" -> 4
      [] inv[i].pc = "done" ->
            CASE inv[i].failed = "sign in" -> 0
              [] inv[i].failed = "upload" -> 1
              [] inv[i].failed = "extract" -> 2
              [] inv[i].failed = "analyze" -> 3
              [] OTHER -> 4

C18_CallsInOrderOnce ==
    \A i \in Invocations :
        /\ IsPrefix(inv[i].calls, CallOrder)
        /\ Len(inv[i].calls) = Position(i)
        /\ Len(inv[i].calls) >= 2 => inv[i].fileUrl # NoUrl
        /\ Len(inv[i].calls) >= 3 => inv[i].resumeText # NoText
        /\ Len(inv[i].calls) >= 4 => inv[i].analysisResult # NoResults

C18_Witness ==
    \E i \in Invocations :
        \E j \in Others(i) :
            /\ inv[i].pc = "done" /\ inv[i].failed = "extract"
            /\ inv[i].calls = SubSeq(CallOrder, 1, 2)
            /\ inv[j].pc = "done" /\ inv[j].failed = "none"
            /\ inv[j].calls = CallOrder

\* C19: every argument list passed to saveAnalysisResults pairs the file name
\* and the storage URL of one invocation with the AnalysisResult computed
\* from that same invocation's file, also when two invocations for different
\* files interleave.
C19_SavedRecordsUnmixed ==
    \A r \in saveCalls :
        \E i \in Invocations :
            /\ r.userId = inv[i].userId
            /\ r.fileName = inv[i].uploadedFile.name
            /\ r.fileUrl = PublicUrl(inv[i].userId, i)
            /\ r.fileUrl = inv[i].fileUrl
            /\ r.analysisResults = AnalysisOf(TextOf(inv[i].uploadedFile))

C19_Witness ==
    /\ Cardinality(saveCalls) = Cardinality(Invocations)
    /\ \A i \in Invocations : inv[i].pc = "save"
    /\ \A i \in Invocations :
          \A j \in Others(i) : inv[i].uploadedFile # inv[j].uploadedFile

\* ------------------------------------------------------------------------
\* Properties of the payload location
\* ------------------------------------------------------------------------

\* The first json-labelled fenced block of a reply: its opening marker at i,
\* its closing backticks at j.
HasFencedBlock(toks) ==
    \E i, j \in 1..Len(toks) :
        i < j /\ toks[i] = "fence" /\ toks[j] \in {"fence", "bt"}

BlockOpen(toks) == Min({i \in 1..Len(toks) : toks[i] = "fence"})
BlockClose(toks) ==
    Min({j \in 1..Len(toks) :
            j > BlockOpen(toks) /\ toks[j] \in {"fence", "bt"}})

\* The content of the block, without the white space around it.
BlockContent(toks) ==
    Trim(SubSeq(toks, BlockOpen(toks) + 1, BlockClose(toks) - 1))

\* The block with its markers.
BlockWithMarkers(toks) ==
    <<"fence">> \o SubSeq(toks, BlockOpen(toks) + 1, BlockClose(toks) - 1)
        \o <<"bt">>

HasBraceSpan(toks) ==
    \E i, j \in 1..Len(toks) :
        i <= j /\ toks[i] \in {"lb", "obj"} /\ toks[j] \in {"rb", "obj"}

\* From the first { to the last }.
BraceSpan(toks) ==
    SubSeq(toks,
           Min({i \in 1..Len(toks) : toks[i] \in {"lb", "obj"}}),
           Max({j \in 1..Len(toks) : toks[j] \in {"rb", "obj"}}))

RECURSIVE StringsOf(_)
StringsOf(xs) ==
    IF xs = <<>> THEN <<>>
    ELSE (IF Head(xs).t = "string" THEN <<Head(xs).s>> ELSE <<>>)
            \o StringsOf(Tail(xs))

StringsUnder(l) == IF l.isArray THEN StringsOf(l.items) ELSE <<>>

\* C21: the flat improvements list of the result is the string elements of
\* raw.p.improvements in their order when it is an array; when it is an
\* object, the string elements under critical, important, suggested,
\* recommended, in that key order and in the order inside each array, keys
\* that are absent or not arrays skipped; and empty otherwise.
C21_ImprovementsFlattened ==
    Returned =>
        result.improvements =
            IF raw.p.improvements.v.t = "array"
            THEN StringsOf(raw.p.improvements.items)
            ELSE IF raw.p.improvements.v.t = "object"
            THEN StringsUnder(raw.p.improvements.critical)
                 \o StringsUnder(raw.p.improvements.important)
                 \o StringsUnder(raw.p.improvements.suggested)
                 \o StringsUnder(raw.p.improvements.recommended)
            ELSE <<>>

C21_Witness ==
    /\ Returned
    /\ raw.p.improvements.v.t = "object"
    /\ ~raw.p.improvements.important.isArray
    /\ result.improvements = <<"c1", "c2", "s1", "s2", "r1", "r2">>

\* The number a flat score stands for: itself, the number a string spells,
\* and no number for anything else.
ScoreNumber(v) == IF TypeOf(v) \in {"number", "string"} THEN ToNumber(v) ELSE NaN
Nearest(x) == Num((x.n + 1) \div 2)

\* C22 as stated: scores.overall is the flat score rounded to the nearest
\* integer when it lies in [0,100], 100 when it is above 100, 0 when it is
\* below 0, and 0 when it is non-numeric, null or absent.
C22_FlatScoreClamped ==
    Returned =>
        result.scores.overall =
            LET x == ScoreNumber(raw.p.score)
            IN  IF x.t = "NaN" THEN Num(0)
                ELSE IF x.t = "Infinity" \/ (x.t = "number" /\ x.n > 2 * MaxScore)
                THEN Num(MaxScore)
                ELSE IF x.t = "-Infinity" \/ (x.t = "number" /\ x.n < 0)
                THEN Num(0)
                ELSE Nearest(x)

\* C22 amended: as stated for finite scores; a score that is infinite (a
\* number too large for a double, such as 1e999) gives 0, not 100.
C22_FiniteFlatScoreClamped ==
    Returned =>
        result.scores.overall =
            LET x == ScoreNumber(raw.p.score)
            IN  IF x.t \in {"NaN", "Infinity", "-Infinity"} THEN Num(0)
                ELSE IF x.n > 2 * MaxScore THEN Num(MaxScore)
                ELSE IF x.n < 0 THEN Num(0)
                ELSE Nearest(x)

C22_Witness ==
    /\ Returned
    /\ raw.p.score = Str("130")
    /\ result.scores.overall = Num(MaxScore)

\* An invocation between its first await and its end.
InFlight(i) == inv[i].pc \in {"upload", "extract", "analyze", "save"}

\* C23: every analyzeResume invocation started with a signed-in user
\* eventually finishes, provided every collaborator call settles, and the
\* step that finishes it, with a result or with an error, sets analyzing and
\* uploadingToStorage to false.
C23_AnalysisEnds ==
    /\ \A i \in Invocations : InFlight(i) ~> (inv[i].pc = "done")
    /\ [][\A i \in Invocations :
            (InFlight(i) /\ inv'[i].pc = "done")
                => (~analyzing' /\ ~uploadingToStorage')]_vars

C23_Witness ==
    \E i \in Invocations :
        /\ inv[i].pc = "done"
        /\ inv[i].failed = "extract"
        /\ Alone(i)
        /\ ~analyzing
        /\ ~uploadingToStorage

\* C26: saveAnalysisResults is called only in an invocation whose upload,
\* extraction and model call all succeeded; an invocation that ends in the
\* error state has passed no record to it, and an invocation started without
\* a signed-in user calls no collaborator at all.
C26_SaveOnlyAfterSuccess ==
    /\ \A r \in saveCalls :
          \E i \in Invocations :
              /\ r.fileUrl = PublicUrl(inv[i].userId, i)
              /\ inv[i].uploaded = "url"
              /\ inv[i].resumeText # NoText
              /\ inv[i].analysisResult # NoResults
              /\ inv[i].failed = "none"
    /\ \A i \in Invocations :
          /\ inv[i].failed # "none"
                => /\ "saveAnalysisResults" \notin
                        {inv[i].calls[n] : n \in 1..Len(inv[i].calls)}
                   /\ \A r \in saveCalls : r.fileUrl.upload # i
          /\ (inv[i].pc # "idle" /\ inv[i].userId = NoUser)
                => /\ inv[i].calls = <<>>
                   /\ inv[i].pc = "done"
                   /\ inv[i].setError = SignInRequired

C26_Witness ==
    \E i \in Invocations :
        \E j \in Others(i) :
            /\ inv[i].pc = "done" /\ inv[i].failed = "analyze"
            /\ inv[j].pc = "done" /\ inv[j].failed = "none"
            /\ Cardinality(saveCalls) = 1

\* ------------------------------------------------------------------------
\* Properties of the App component
\* ------------------------------------------------------------------------

\* C24: in every reachable state of the App component, under any
\* interleaving of analyzeResume, resetAnalysis, handleViewHistoricalAnalysis
\* and handleSignOut, error and results are never both non-null.
C24_ErrorExcludesResults ==
    ~(error # NoAppError /\ results # NoResults)

\* C25: after handleSignOut has completed, results and error stay null until
\* a new analysis or history view is started (neither can start while nobody
\* is signed in): an invocation in flight at sign-out publishes nothing
\* afterwards, so no result is in the state when the next user signs in.
C25_NothingPublishedAfterSignOut ==
    user = NoUser => (results = NoResults /\ error = NoAppError)

\* C27: handleDrop with a file whose MIME type is not one of the four
\* accepted types starts no analysis and leaves file, analyzing, error and
\* results unchanged, setting only dragActive to false; a dropped file of one
\* of the four types sets file and starts exactly one analyzeResume
\* invocation.
C27_DropFiltersByType ==
    [][\A i \in Invocations :
          (inv[i].pc = "idle" /\ inv'[i].via = "drop")
              => /\ ~dragActive'
                 /\ \A j \in Others(i) : inv'[j] = inv[j]
                 /\ IF inv'[i].uploadedFile.type
                          \in {TextPlain, ApplicationPdf, MsWord, OpenXmlWord}
                    THEN /\ file' = inv'[i].uploadedFile
                         /\ inv'[i].pc = "upload"
                         /\ inv'[i].calls = <<"uploadResume">>
                         /\ analyzing'
                    ELSE /\ inv'[i].pc = "ignored"
                         /\ inv'[i].calls = <<>>
                         /\ UNCHANGED <<file, analyzing, error, results,
                                        uploadingToStorage, saveCalls>>]_vars

C27_Witness ==
    \E i \in Invocations :
        \E j \in Others(i) :
            /\ inv[i].via = "drop" /\ inv[i].pc = "ignored"
            /\ inv[i].uploadedFile.type = "image/png"
            /\ inv[j].via = "drop" /\ inv[j].pc = "upload"
            /\ inv[j].uploadedFile.type = OpenXmlWord
            /\ file = inv[j].uploadedFile

\* ------------------------------------------------------------------------
\* Properties of the ResumeHistory component
\* ------------------------------------------------------------------------

\* C28: handleDelete removes a row from the list and calls onAnalysisDeleted
\* only when the user confirmed and the delete of the table row reported no
\* error; when the user cancels, no collaborator is called and nothing
\* changes; when the delete of the table row fails, the list is unchanged;
\* and in every confirmed case deletingId is null once handleDelete finishes.
C28_DeleteOnlyOnSuccess ==
    [][\A id \in RowIds :
          /\ ((Displayed(id) /\ ~Displayed(id)') \/ (id \in notified' \ notified))
                => /\ del[id].confirmed
                   /\ del'[id].table = "deleted"
                   /\ ~Displayed(id)'
                   /\ id \in notified'
          /\ (del'[id] # del[id] /\ del'[id].pc = "cancelled")
                => /\ del'[id].calls = <<>>
                   /\ UNCHANGED <<analyses, deletingId, rendered, notified,
                                  loading>>
          /\ (del[id].pc = "table" /\ del'[id].pc = "done")
                => /\ deletingId' = NoId
                   /\ del'[id].table # "deleted"
                        => UNCHANGED <<analyses, rendered, notified>>]_vars

C28_Witness ==
    /\ del["row-1"].pc = "done"
    /\ del["row-1"].table = "error"
    /\ Displayed("row-1")
    /\ del["row-2"].table = "deleted"
    /\ del["row-2"].storage = "error"
    /\ ~Displayed("row-2")
    /\ notified = {"row-2"}
    /\ deletingId = NoId

\* A value the list shows: a dash, or an integer in [0,100].
DashOrScore(v) ==
    \/ v = Null
    \/ v.t = "number" /\ v.n % 2 = 0 /\ v.n >= 0 /\ v.n <= 2 * HistoryMaxScore

\* C29: for every stored analysis_results value shown by ResumeHistory
\* (canonical shape, flat shape, missing or non-numeric fields), the overall
\* and ATS values of the row are each a dash or an integer in [0,100].
C29_DisplayInRange ==
    \A n \in 1..Len(rendered) :
        DashOrScore(rendered[n].overall) /\ DashOrScore(rendered[n].ats)

\* C30: for every flat-shape value with at least one nonzero value among
\* breakdown.experience and breakdown.education, the ATS value the history
\* list derives equals the scores.atsCompatibility that
\* analyzeResumeWithGemini derives from the same value.
C30_AtsDerivationsAgree ==
    \A n \in 1..Len(analyses) :
        LET ar == analyses[n].ar
        IN  (/\ ~ar.scores.present
             /\ ar.breakdown.v.t = "object"
             /\ \/ Truthy(BreakdownNumber(ar, "experience"))
                \/ Truthy(BreakdownNumber(ar, "education")))
                => \E m \in 1..Len(rendered) :
                      /\ rendered[m].id = analyses[n].id
                      /\ rendered[m].ats
                            = Normalize(ar).scores.atsCompatibility

============================================================================
